---- MODULE Spec2Model ----
(***************************************************************************)
(* The text decoder of the mllama model (model/mllama/model_text.go):      *)
(* construction of the layer list, the decoder's dispatch over self- and   *)
(* cross-attention layers, the two attention units with their tensor shape *)
(* algebra, and the per-layer key/value cache they are handed.             *)
(*                                                                         *)
(* A tensor is abstracted to its shape (four axes, as in the backend) and  *)
(* one element value taken in the ring Z_Modulus; weights are opaque       *)
(* constants of that ring.                                                  *)
(***************************************************************************)
EXTENDS Integers, Sequences, FiniteSets, TLC

\* ------------------------------------------------------------------ bounds
MaxBlocks == 2      \* block_count ranges over 0..MaxBlocks
MaxTokens == 3      \* positions fed to the model over one generation sequence
MaxHidden == 4      \* embedding_length ranges over 1..MaxHidden (SpecGeom)
MaxHeads  == 2      \* head_count, head_count_kv range over 1..MaxHeads (SpecGeom)

\* the nil interface value (a record, so that it compares with tensors)
Nil == [nil |-> TRUE]

\* ----------------------------------------------------- tensor abstraction
Values  == {0, 1, 2, 3, 4}
Modulus == Cardinality(Values)

T(shape, val) == [ok |-> TRUE, shape |-> shape, val |-> val % Modulus]
Bad == [ok |-> FALSE, shape |-> <<0, 0, 0, 0>>, val |-> 0]

Numel(shape) == shape[1] * shape[2] * shape[3] * shape[4]

Dim(t, n) == t.shape[n + 1]

\* reshape: same elements, new axes; the element counts must agree
Reshape(t, shape) ==
    IF t.ok /\ Numel(shape) = Numel(t.shape) THEN [t EXCEPT !.shape = shape] ELSE Bad

\* permute: source axis k becomes axis ax[k+1] of the result
Permute(t, a0, a1, a2, a3) ==
    IF ~t.ok THEN Bad
    ELSE LET ax == <<a0, a1, a2, a3>>
             src(j) == CHOOSE k \in 1..4 : ax[k] = j - 1
         IN  [t EXCEPT !.shape = [j \in 1..4 |-> t.shape[src(j)]]]

Contiguous(t) == t

\* a.Mulmat(b): contraction over axis 0, b's higher axes broadcast over a's
Mulmat(a, b) ==
    IF /\ a.ok /\ b.ok
       /\ a.shape[1] = b.shape[1]
       /\ a.shape[3] > 0 /\ a.shape[4] > 0
       /\ b.shape[3] % a.shape[3] = 0
       /\ b.shape[4] % a.shape[4] = 0
    THEN T(<<a.shape[2], b.shape[2], b.shape[3], b.shape[4]>>, a.val * b.val)
    ELSE Bad

\* elementwise operations: b is broadcast over a
CanRepeat(b, a) == \A k \in 1..4 : b.shape[k] > 0 /\ a.shape[k] % b.shape[k] = 0

Add(a, b) ==
    IF a.ok /\ b.ok /\ CanRepeat(b, a) THEN T(a.shape, a.val + b.val) ELSE Bad

Mul(a, b) ==
    IF a.ok /\ b.ok /\ CanRepeat(b, a) THEN T(a.shape, a.val * b.val) ELSE Bad

Scale(t, s) == IF t.ok THEN T(t.shape, t.val * s) ELSE Bad

\* softmax: every element positive, so never the ring's zero
Softmax(t) == IF t.ok THEN T(t.shape, IF (t.val * t.val + 1) % Modulus = 0 THEN 1 ELSE t.val * t.val + 1) ELSE Bad

\* tanh: odd, fixes zero
Tanh(t) == IF t.ok THEN T(t.shape, t.val * t.val * t.val) ELSE Bad

\* x * sigmoid(x): zero at zero
SILU(t) == Mul(t, Softmax(t))

\* rotary embedding: the identity at position 0, position dependent elsewhere
Rope(t, positions) ==
    IF t.ok /\ positions.ok THEN T(t.shape, t.val * (1 + positions.val)) ELSE Bad

\* nn.Linear.Forward: weight.Mulmat(t), the weight of shape (in x out)
Linear(in, out, w, t) == Mulmat(T(<<in, out, 1, 1>>, w), t)

\* nn.RMSNorm.Forward: shape preserving, scaled by the norm's weight
RMSNorm(w, t) == IF t.ok THEN T(t.shape, t.val * w) ELSE Bad

\* 1/sqrt(headDim) as an element of the ring
InvSqrt(headDim) == 1 + (headDim % 2)

\* ------------------------------------------------------------------ cache
\* A cache slice is the sequence of the positions put so far.
Sub(layerIndex) == layerIndex

\* Put appends one entry per position of key/value and returns the whole
\* accumulated key and value.
RECURSIVE SumField(_, _)
SumField(s, f) == IF s = <<>> THEN 0 ELSE s[1][f] + SumField(Tail(s), f)

Put(slice, key, value) ==
    LET n   == Dim(key, 2)
        new == slice \o [p \in 1..n |-> [k |-> key.val, v |-> value.val]]
    IN  [slice |-> new,
         key   |-> T(<<Dim(key, 0), Dim(key, 1), Len(new), 1>>, SumField(new, "k")),
         value |-> T(<<Dim(value, 0), Dim(value, 1), Len(new), 1>>, SumField(new, "v"))]

\* ---------------------------------------------------------------- weights
\* The loaded weights, by ggml tag: opaque nonzero elements of the ring.
Weights ==
    [attn_q |-> 2, attn_k |-> 3, attn_v |-> 1, attn_output |-> 2,
     ffn_up |-> 3, ffn_down |-> 1, ffn_gate |-> 2,
     attn_norm |-> 1, ffn_norm |-> 3,
     cross_attn_q_norm |-> 2, cross_attn_q_proj |-> 1,
     cross_attn_k_norm |-> 1, cross_attn_k_proj |-> 2,
     cross_attn_v_proj |-> 3, cross_attn_o_proj |-> 1,
     token_embd |-> 1, output_norm |-> 2, output |-> 3]

\* -------------------------------------------------------- attention units
\* Faulty variant of TextSelfAttention.Forward: attends over the current
\* key/value only, Put is never called.
TextSelfAttention_Forward_NoPut(hiddenState, positions, mask, slice, o) ==
    LET batchSize == Dim(hiddenState, 1)
        headDim   == o.hiddenSize \div o.numHeads
        query == Rope(Reshape(Linear(o.hiddenSize, o.hiddenSize, Weights.attn_q, hiddenState),
                              <<headDim, o.numHeads, batchSize, 1>>), positions)
        key   == Rope(Reshape(Linear(o.hiddenSize, headDim * o.numKVHeads, Weights.attn_k, hiddenState),
                              <<headDim, o.numKVHeads, batchSize, 1>>), positions)
        value == Reshape(Linear(o.hiddenSize, headDim * o.numKVHeads, Weights.attn_v, hiddenState),
                         <<headDim, o.numKVHeads, batchSize, 1>>)
        reached == query.ok /\ key.ok /\ value.ok
        queryP == Contiguous(Permute(query, 0, 2, 1, 3))
        keyP   == Contiguous(Permute(key, 0, 2, 1, 3))
        valueP == Contiguous(Permute(value, 1, 2, 0, 3))
        scaled == Scale(Mulmat(keyP, queryP), InvSqrt(headDim))
        scores == Softmax(IF mask # Nil THEN Add(scaled, mask) ELSE scaled)
        attention == Reshape(Contiguous(Permute(Mulmat(valueP, scores), 0, 2, 1, 3)),
                             <<o.hiddenSize, batchSize, 1, 1>>)
    IN  [t     |-> IF reached THEN Linear(o.hiddenSize, o.hiddenSize, Weights.attn_output, attention) ELSE Bad,
         slice |-> slice]

\* Faulty variant of TextSelfAttention.Forward: query.Mulmat(key) for key.Mulmat(query).
TextSelfAttention_Forward_SwappedScores(hiddenState, positions, mask, slice, o) ==
    LET batchSize == Dim(hiddenState, 1)
        headDim   == o.hiddenSize \div o.numHeads
        query == Rope(Reshape(Linear(o.hiddenSize, o.hiddenSize, Weights.attn_q, hiddenState),
                              <<headDim, o.numHeads, batchSize, 1>>), positions)
        key   == Rope(Reshape(Linear(o.hiddenSize, headDim * o.numKVHeads, Weights.attn_k, hiddenState),
                              <<headDim, o.numKVHeads, batchSize, 1>>), positions)
        value == Reshape(Linear(o.hiddenSize, headDim * o.numKVHeads, Weights.attn_v, hiddenState),
                         <<headDim, o.numKVHeads, batchSize, 1>>)
        reached == query.ok /\ key.ok /\ value.ok
        put    == IF reached THEN Put(slice, key, value)
                  ELSE [slice |-> slice, key |-> Bad, value |-> Bad]
        queryP == Contiguous(Permute(query, 0, 2, 1, 3))
        keyP   == Contiguous(Permute(put.key, 0, 2, 1, 3))
        valueP == Contiguous(Permute(put.value, 1, 2, 0, 3))
        scaled == Scale(Mulmat(queryP, keyP), InvSqrt(headDim))
        scores == Softmax(IF mask # Nil THEN Add(scaled, mask) ELSE scaled)
        attention == Reshape(Contiguous(Permute(Mulmat(valueP, scores), 0, 2, 1, 3)),
                             <<o.hiddenSize, batchSize, 1, 1>>)
    IN  [t     |-> Linear(o.hiddenSize, o.hiddenSize, Weights.attn_output, attention),
         slice |-> put.slice]

\* TextSelfAttention.Forward.  Returns the attention output and the cache
\* slice as Put left it.
TextSelfAttention_Forward(hiddenState, positions, mask, slice, o) ==
    LET batchSize == Dim(hiddenState, 1)
        headDim   == o.hiddenSize \div o.numHeads
        query == Rope(Reshape(Linear(o.hiddenSize, o.hiddenSize, Weights.attn_q, hiddenState),
                              <<headDim, o.numHeads, batchSize, 1>>), positions)
        key   == Rope(Reshape(Linear(o.hiddenSize, headDim * o.numKVHeads, Weights.attn_k, hiddenState),
                              <<headDim, o.numKVHeads, batchSize, 1>>), positions)
        value == Reshape(Linear(o.hiddenSize, headDim * o.numKVHeads, Weights.attn_v, hiddenState),
                         <<headDim, o.numKVHeads, batchSize, 1>>)
        \* a failed reshape aborts the pass before Put is reached
        reached == query.ok /\ key.ok /\ value.ok
        put    == IF reached THEN Put(slice, key, value)
                  ELSE [slice |-> slice, key |-> Bad, value |-> Bad]
        queryP == Contiguous(Permute(query, 0, 2, 1, 3))
        keyP   == Contiguous(Permute(put.key, 0, 2, 1, 3))
        valueP == Contiguous(Permute(put.value, 1, 2, 0, 3))
        scaled == Scale(Mulmat(keyP, queryP), InvSqrt(headDim))
        scores == Softmax(IF mask # Nil THEN Add(scaled, mask) ELSE scaled)
        attention == Reshape(Contiguous(Permute(Mulmat(valueP, scores), 0, 2, 1, 3)),
                             <<o.hiddenSize, batchSize, 1, 1>>)
    IN  [t     |-> Linear(o.hiddenSize, o.hiddenSize, Weights.attn_output, attention),
         slice |-> put.slice]

\* TextMLP.Forward
TextMLP_Forward(hiddenState, o) ==
    LET gated == Mul(SILU(Linear(o.hiddenSize, o.hiddenSize, Weights.ffn_gate, hiddenState)),
                     Linear(o.hiddenSize, o.hiddenSize, Weights.ffn_up, hiddenState))
    IN  Linear(o.hiddenSize, o.hiddenSize, Weights.ffn_down, gated)

\* Faulty variant of TextCrossAttention.Forward: key/value go through Put.
TextCrossAttention_Forward_Cached(hiddenState, crossAttentionStates, slice, o) ==
    IF crossAttentionStates = Nil THEN [t |-> Bad, slice |-> slice, kvProjected |-> 0]
    ELSE
    LET batchSize == Dim(hiddenState, 1)
        headDim   == o.hiddenSize \div o.numHeads
        numVisionTokens == Dim(crossAttentionStates, 1)
        numTiles        == Dim(crossAttentionStates, 2)
        query == RMSNorm(Weights.cross_attn_q_norm,
                         Reshape(Linear(o.hiddenSize, o.hiddenSize, Weights.cross_attn_q_proj, hiddenState),
                                 <<headDim, o.numHeads, batchSize, 1>>))
        key   == RMSNorm(Weights.cross_attn_k_norm,
                         Reshape(Linear(o.hiddenSize, headDim * o.numKVHeads, Weights.cross_attn_k_proj, crossAttentionStates),
                                 <<headDim, o.numKVHeads, numVisionTokens * numTiles, 1>>))
        value == Reshape(Linear(o.hiddenSize, headDim * o.numKVHeads, Weights.cross_attn_v_proj, crossAttentionStates),
                         <<headDim, o.numKVHeads, numVisionTokens * numTiles, 1>>)
        reached == query.ok /\ key.ok /\ value.ok
        put    == IF reached THEN Put(slice, key, value)
                  ELSE [slice |-> slice, key |-> Bad, value |-> Bad]
        queryP == Contiguous(Permute(query, 0, 2, 1, 3))
        keyP   == Contiguous(Permute(put.key, 0, 2, 1, 3))
        valueP == Contiguous(Permute(put.value, 1, 2, 0, 3))
        scores == Softmax(Scale(Mulmat(keyP, queryP), InvSqrt(headDim)))
        attention == Reshape(Contiguous(Permute(Mulmat(valueP, scores), 0, 2, 1, 3)),
                             <<o.hiddenSize, batchSize, 1, 1>>)
    IN  [t     |-> Linear(o.hiddenSize, o.hiddenSize, Weights.cross_attn_o_proj, attention),
         slice |-> put.slice,
         kvProjected |-> 1]

\* TextCrossAttention.Forward.  A nil crossAttentionStates is dereferenced at
\* its first use and aborts the pass.  kvProjected counts the key/value
\* projections of the cross-modal tensor this call computed.
TextCrossAttention_Forward(hiddenState, crossAttentionStates, slice, o) ==
    IF crossAttentionStates = Nil THEN [t |-> Bad, slice |-> slice, kvProjected |-> 0]
    ELSE
    LET batchSize == Dim(hiddenState, 1)
        headDim   == o.hiddenSize \div o.numHeads
        numVisionTokens == Dim(crossAttentionStates, 1)
        numTiles        == Dim(crossAttentionStates, 2)
        query == RMSNorm(Weights.cross_attn_q_norm,
                         Reshape(Linear(o.hiddenSize, o.hiddenSize, Weights.cross_attn_q_proj, hiddenState),
                                 <<headDim, o.numHeads, batchSize, 1>>))
        key   == RMSNorm(Weights.cross_attn_k_norm,
                         Reshape(Linear(o.hiddenSize, headDim * o.numKVHeads, Weights.cross_attn_k_proj, crossAttentionStates),
                                 <<headDim, o.numKVHeads, numVisionTokens * numTiles, 1>>))
        value == Reshape(Linear(o.hiddenSize, headDim * o.numKVHeads, Weights.cross_attn_v_proj, crossAttentionStates),
                         <<headDim, o.numKVHeads, numVisionTokens * numTiles, 1>>)
        \* TODO cache key, value: the slice is not used
        queryP == Contiguous(Permute(query, 0, 2, 1, 3))
        keyP   == Contiguous(Permute(key, 0, 2, 1, 3))
        valueP == Contiguous(Permute(value, 1, 2, 0, 3))
        scores == Softmax(Scale(Mulmat(keyP, queryP), InvSqrt(headDim)))
        attention == Reshape(Contiguous(Permute(Mulmat(valueP, scores), 0, 2, 1, 3)),
                             <<o.hiddenSize, batchSize, 1, 1>>)
    IN  [t     |-> Linear(o.hiddenSize, o.hiddenSize, Weights.cross_attn_o_proj, attention),
         slice |-> slice,
         kvProjected |-> 1]

\* --------------------------------------------------------- decoder layers
\* TextSelfAttentionDecoderLayer.Forward.  attn is the attention unit's
\* output, kept for the shape claims.
TextSelfAttentionDecoderLayer_Forward(hiddenState, positions, mask, slice, o) ==
    LET residual  == hiddenState
        sa        == TextSelfAttention_Forward(RMSNorm(Weights.attn_norm, hiddenState),
                                               positions, mask, slice, o)
        h2        == Add(sa.t, residual)
        residual2 == h2
        h4        == TextMLP_Forward(RMSNorm(Weights.ffn_norm, h2), o)
    IN  [t |-> Add(h4, residual2), slice |-> sa.slice, attn |-> sa.t, kvProjected |-> 0]

\* Faulty variant of TextCrossAttentionDecoderLayer.Forward: the feed-forward
\* output is not multiplied by tanh(MLPGate).
TextCrossAttentionDecoderLayer_Forward_UngatedMLP(hiddenState, crossAttentionStates, crossAttentionMask, slice, o, g) ==
    LET residual  == hiddenState
        ca        == TextCrossAttention_Forward(RMSNorm(Weights.attn_norm, hiddenState),
                                                crossAttentionStates, slice, o)
        h2        == Add(Mul(ca.t, Tanh(g.AttentionGate)), residual)
        residual2 == h2
        h4        == TextMLP_Forward(RMSNorm(Weights.ffn_norm, h2), o)
    IN  [t |-> Add(h4, residual2), slice |-> ca.slice, attn |-> ca.t,
         kvProjected |-> ca.kvProjected]

\* TextCrossAttentionDecoderLayer.Forward.  g holds the layer's two gate
\* tensors (cross_attn_attn_gate, cross_attn_mlp_gate).
TextCrossAttentionDecoderLayer_Forward(hiddenState, crossAttentionStates, crossAttentionMask, slice, o, g) ==
    LET residual  == hiddenState
        ca        == TextCrossAttention_Forward(RMSNorm(Weights.attn_norm, hiddenState),
                                                crossAttentionStates, slice, o)
        h2        == Add(Mul(ca.t, Tanh(g.AttentionGate)), residual)
        residual2 == h2
        h4        == Mul(TextMLP_Forward(RMSNorm(Weights.ffn_norm, h2), o), Tanh(g.MLPGate))
    IN  [t |-> Add(h4, residual2), slice |-> ca.slice, attn |-> ca.t,
         kvProjected |-> ca.kvProjected]

\* TextDecoderLayer: the interface's dynamic dispatch on the concrete type.
\* The self-attention layer ignores the cross-modal arguments, the
\* cross-attention layer the position ids and the mask.
LayerForward(kind, hiddenState, positionIDs, mask, crossAttentionStates, crossAttentionMask, slice, o, g) ==
    IF kind = "cross"
    THEN TextCrossAttentionDecoderLayer_Forward(hiddenState, crossAttentionStates, crossAttentionMask, slice, o, g)
    ELSE TextSelfAttentionDecoderLayer_Forward(hiddenState, positionIDs, mask, slice, o)

\* slices.Contains
Contains(s, v) == \E k \in DOMAIN s : s[k] = v

\* ----------------------------------------------------------- construction
\* Faulty variant of newTextModel's loop: the two layer types exchanged.
RECURSIVE BuildLayers_Swapped(_, _, _)
BuildLayers_Swapped(c, i, decoderLayers) ==
    IF i >= c.block_count THEN decoderLayers
    ELSE BuildLayers_Swapped(c, i + 1,
            Append(decoderLayers,
                   IF Contains(c.cross_attention_layers, i) THEN "self" ELSE "cross"))

\* newTextModel's loop over block_count
RECURSIVE BuildLayers(_, _, _)
BuildLayers(c, i, decoderLayers) ==
    IF i >= c.block_count THEN decoderLayers
    ELSE BuildLayers(c, i + 1,
            Append(decoderLayers,
                   IF Contains(c.cross_attention_layers, i) THEN "cross" ELSE "self"))

\* Faulty variant of the options literal: the cross-attention index list is
\* not the one the layer loop read.
Options_NoCrossIndices(c) ==
    [hiddenSize |-> c.embedding_length,
     numHeads   |-> c.head_count,
     numKVHeads |-> c.head_count_kv,
     crossAttentionLayers |-> <<>>]

\* TextModelOptions as newTextModel fills it
Options(c) ==
    [hiddenSize |-> c.embedding_length,
     numHeads   |-> c.head_count,
     numKVHeads |-> c.head_count_kv,
     crossAttentionLayers |-> c.cross_attention_layers]

\* ------------------------------------------------------------------ state
VARIABLES
    config,                 \* the ml.Config newTextModel was given
    pc,                     \* "init", "idle", "decoder" (inside TextDecoder.Forward), "panic"
    opts,                   \* TextModel.TextModelOptions
    Layers,                 \* TextDecoder.Layers: the concrete type of each entry
    gates,                  \* the cross-attention layers' gate tensors
    cache,                  \* slice index -> the positions put so far
    position,               \* positions fed in earlier passes of this sequence
    positionIDs, mask, crossAttentionStates, crossAttentionMask,  \* this pass's arguments
    embedded,               \* TokenEmbedding.Forward(inputIDs)
    i,                      \* TextDecoder.Forward's loop index
    hiddenState,            \* its running hidden state
    decoded,                \* what TextDecoder.Forward returned
    logits,                 \* what TextModel.Forward returned
    trace,                  \* this pass's layer.Forward calls, in call order
    subCalls,               \* this pass's cache.Sub arguments, in call order
    handed,                 \* slice index -> the layers ever handed that slice
    calls,                  \* layer index -> layer.Forward calls so far
    fed,                    \* layer index -> positions passed to layer.Forward so far
    kvProj                  \* layer index -> cross-modal key/value projections computed

vars == <<config, pc, opts, Layers, gates, cache, position, positionIDs, mask,
          crossAttentionStates, crossAttentionMask, embedded, i, hiddenState,
          decoded, logits, trace, subCalls, handed, calls, fed, kvProj>>

Slices == 0..(MaxBlocks - 1)

\* ----------------------------------------------------------------- inputs
RECURSIVE SetToSeq(_)
SetToSeq(S) ==
    IF S = {} THEN <<>>
    ELSE LET m == CHOOSE x \in S : \A y \in S : x <= y
         IN  <<m>> \o SetToSeq(S \ {m})

\* ml.Config as newTextModel reads it
Config(n, cross, h, nh, nkv) ==
    [block_count |-> n, cross_attention_layers |-> cross,
     embedding_length |-> h, head_count |-> nh, head_count_kv |-> nkv]

\* every layout up to MaxBlocks blocks, one grouped-query geometry
DecoderConfigs ==
    {Config(n, SetToSeq(S), 4, 2, 1) : n \in 0..MaxBlocks, S \in SUBSET (0..MaxBlocks)}

\* every geometry, one layout: a self-attention layer then a cross-attention layer
GeometryConfigs ==
    {Config(2, <<1>>, h, nh, nkv) : h \in 1..MaxHidden, nh \in 1..MaxHeads, nkv \in 1..MaxHeads}

GateValues == {0, 1}
Gate(v) == T(<<1, 1, 1, 1>>, v)

\* sizes fixed by the loaded weights and the vision encoder
Sizes == [vocab |-> 5, visionTokens |-> 3, tiles |-> 1]

CausalMask(prior, n) == T(<<prior + n, n, 1, 1>>, 4)
CrossStates(h) == T(<<h, Sizes.visionTokens, Sizes.tiles, 1>>, 2)
CrossMask(n) == T(<<Sizes.visionTokens * Sizes.tiles, n, 1, 1>>, 4)

ValidGeometry(o) ==
    /\ (o.hiddenSize \div o.numHeads) * o.numHeads = o.hiddenSize
    /\ o.numHeads % o.numKVHeads = 0

\* ------------------------------------------------------------------- Init
Init ==
    /\ pc = "init"
    /\ config = Nil
    /\ opts = Nil /\ Layers = <<>> /\ gates = Nil
    /\ cache = [s \in Slices |-> <<>>]
    /\ position = 0
    /\ positionIDs = Nil /\ mask = Nil
    /\ crossAttentionStates = Nil /\ crossAttentionMask = Nil
    /\ embedded = Nil /\ i = 0 /\ hiddenState = Nil
    /\ decoded = Nil /\ logits = Nil
    /\ trace = <<>> /\ subCalls = <<>>
    /\ handed = [s \in Slices |-> {}]
    /\ calls = [s \in Slices |-> 0]
    /\ fed = [s \in Slices |-> 0]
    /\ kvProj = [s \in Slices |-> 0]

\* ---------------------------------------------------------------- actions
\* newTextModel, and the gate weights loaded into the model it returns
NewTextModel(c, ga, gm) ==
    /\ pc = "init"
    /\ config' = c
    /\ Layers' = BuildLayers(c, 0, <<>>)
    /\ opts' = Options(c)
    /\ gates' = [AttentionGate |-> Gate(ga), MLPGate |-> Gate(gm)]
    /\ pc' = "idle"
    /\ UNCHANGED <<cache, position, positionIDs, mask, crossAttentionStates,
                   crossAttentionMask, embedded, i, hiddenState, decoded, logits,
                   trace, subCalls, handed, calls, fed, kvProj>>

\* TextModel.Forward up to its call of TextDecoder.Forward, on n new
\* positions, with or without a mask and cross-modal state
TextModel_Forward(n, withMask, withCross) ==
    /\ pc = "idle"
    /\ position + n <= MaxTokens
    /\ positionIDs' = T(<<n, 1, 1, 1>>, position)
    /\ mask' = IF withMask THEN CausalMask(position, n) ELSE Nil
    /\ crossAttentionStates' = IF withCross THEN CrossStates(opts.hiddenSize) ELSE Nil
    /\ crossAttentionMask' = IF withCross THEN CrossMask(n) ELSE Nil
    /\ embedded' = T(<<opts.hiddenSize, n, 1, 1>>, Weights.token_embd * (1 + position))
    /\ hiddenState' = embedded'
    /\ i' = 0
    /\ trace' = <<>> /\ subCalls' = <<>>
    /\ pc' = "decoder"
    /\ UNCHANGED <<config, opts, Layers, gates, cache, position, decoded, logits,
                   handed, calls, fed, kvProj>>

\* Faulty variants of the dispatch condition: && for ||, and no condition.
ShouldRun_And(idx, cas, o) == ~Contains(o.crossAttentionLayers, idx) /\ cas # Nil

ShouldRun_Always(idx, cas, o) == TRUE

\* the dispatch condition of TextDecoder.Forward
ShouldRun(idx, cas, o) == ~Contains(o.crossAttentionLayers, idx) \/ cas # Nil

\* Faulty variants of the call: every layer handed Sub(0); every layer given
\* the embedded input instead of the running hidden state.
RunLayer_SharedSlice(idx, h) ==
    LET s == Sub(0)
        r == LayerForward(Layers[idx + 1], h, positionIDs, mask, crossAttentionStates,
                          crossAttentionMask, cache[s], opts, gates)
    IN  [layer |-> idx, kind |-> Layers[idx + 1], slice |-> s, prior |-> Len(cache[s]),
         in |-> h, out |-> r.t, attn |-> r.attn, content |-> r.slice,
         kvProjected |-> r.kvProjected]

RunLayer_FromInput(idx, h) ==
    LET s == Sub(idx)
        r == LayerForward(Layers[idx + 1], embedded, positionIDs, mask, crossAttentionStates,
                          crossAttentionMask, cache[s], opts, gates)
    IN  [layer |-> idx, kind |-> Layers[idx + 1], slice |-> s, prior |-> Len(cache[s]),
         in |-> embedded, out |-> r.t, attn |-> r.attn, content |-> r.slice,
         kvProjected |-> r.kvProjected]

\* the call layer.Forward(..., cache.Sub(i), opts): what it was handed and
\* what it returned
RunLayer(idx, h) ==
    LET s == Sub(idx)
        r == LayerForward(Layers[idx + 1], h, positionIDs, mask, crossAttentionStates,
                          crossAttentionMask, cache[s], opts, gates)
    IN  [layer |-> idx, kind |-> Layers[idx + 1], slice |-> s, prior |-> Len(cache[s]),
         in |-> h, out |-> r.t, attn |-> r.attn, content |-> r.slice,
         kvProjected |-> r.kvProjected]

\* one iteration of TextDecoder.Forward's loop
DecoderStep ==
    /\ pc = "decoder"
    /\ i < Len(Layers)
    /\ IF ShouldRun(i, crossAttentionStates, opts)
       THEN \E r \in {RunLayer(i, hiddenState)} :
                /\ cache' = [cache EXCEPT ![r.slice] = r.content]
                /\ hiddenState' = r.out
                /\ trace' = Append(trace, r)
                /\ subCalls' = Append(subCalls, r.slice)
                /\ handed' = [handed EXCEPT ![r.slice] = @ \cup {i}]
                /\ calls' = [calls EXCEPT ![i] = @ + 1]
                /\ fed' = [fed EXCEPT ![i] = @ + Dim(r.in, 1)]
                /\ kvProj' = [kvProj EXCEPT ![i] = @ + r.kvProjected]
                /\ pc' = IF r.out.ok THEN "decoder" ELSE "panic"
       ELSE UNCHANGED <<cache, hiddenState, trace, subCalls, handed, calls, fed, kvProj, pc>>
    /\ i' = i + 1
    /\ UNCHANGED <<config, opts, Layers, gates, position, positionIDs, mask,
                   crossAttentionStates, crossAttentionMask, embedded, decoded, logits>>

\* TextDecoder.Forward returns; TextModel.Forward normalises and projects
DecoderReturn ==
    /\ pc = "decoder"
    /\ i = Len(Layers)
    /\ decoded' = hiddenState
    /\ logits' = Linear(opts.hiddenSize, Sizes.vocab, Weights.output,
                        RMSNorm(Weights.output_norm, hiddenState))
    /\ position' = position + Dim(embedded, 1)
    /\ pc' = "idle"
    /\ UNCHANGED <<config, opts, Layers, gates, cache, positionIDs, mask, crossAttentionStates,
                   crossAttentionMask, embedded, i, hiddenState, trace, subCalls,
                   handed, calls, fed, kvProj>>

Forward ==
    \/ \E n \in 1..MaxTokens, withMask \in BOOLEAN, withCross \in BOOLEAN :
           TextModel_Forward(n, withMask, withCross)
    \/ DecoderStep
    \/ DecoderReturn

Next ==
    \/ \E c \in DecoderConfigs, ga \in GateValues, gm \in GateValues : NewTextModel(c, ga, gm)
    \/ Forward

Spec == Init /\ [][Next]_vars

NextGeom ==
    \/ \E c \in GeometryConfigs : NewTextModel(c, 1, 1)
    \/ Forward

SpecGeom == Init /\ [][NextGeom]_vars

\* ----------------------------------------------------------------- claims
Built == pc # "init"

\* the layer indices executed so far in this pass
Executed == {trace[k].layer : k \in DOMAIN trace}

IsCrossIndex(idx) == Contains(opts.crossAttentionLayers, idx)

LastOut == IF trace = <<>> THEN embedded ELSE trace[Len(trace)].out

IsPrefix(s, t) == Len(s) <= Len(t) /\ \A k \in DOMAIN s : s[k] = t[k]

\* C1: in every forward pass, layer idx has been executed exactly when the
\* loop has passed it and idx is not a cross-attention index or a cross-modal
\* state was supplied; a cross-attention index reached without cross-modal
\* state raises nothing.
C1_ExecutedIffSelfOrCrossState ==
    Built =>
        /\ pc # "panic"
        /\ Len(trace) = Cardinality(Executed)
        /\ \A idx \in 0..(Len(Layers) - 1) :
              (idx \in Executed) <=>
                  (idx < i /\ (~IsCrossIndex(idx) \/ crossAttentionStates # Nil))

C1_Witness ==
    /\ pc = "idle" /\ decoded # Nil
    /\ crossAttentionStates = Nil
    /\ \E a, b \in 0..(Len(Layers) - 1) :
          a \in Executed /\ b \notin Executed /\ IsCrossIndex(b)

\* C2: the loop iteration at a cross-attention index without cross-modal
\* state changes nothing but the loop index: the hidden state is the same,
\* every cache slice is the same, and neither Sub nor a layer is called.
C2_SkippedCrossLayerIsNoOp ==
    [][(/\ pc = "decoder"
        /\ i < Len(Layers)
        /\ IsCrossIndex(i)
        /\ crossAttentionStates = Nil)
       => (/\ hiddenState' = hiddenState
           /\ cache' = cache
           /\ subCalls' = subCalls
           /\ trace' = trace
           /\ pc' = "decoder"
           /\ i' = i + 1)]_vars

C2_Witness ==
    /\ pc = "decoder"
    /\ i > 0 /\ i <= Len(Layers)
    /\ IsCrossIndex(i - 1)
    /\ crossAttentionStates = Nil
    /\ trace # <<>>
    /\ hiddenState = LastOut

\* C3: every executed layer idx is handed the slice Sub(idx), Sub is called
\* for the executed layers only, and a slice is only ever handed to, and so
\* only ever written by, the layer of its own index.
C3_LayersNeverShareSlices ==
    /\ \A k \in DOMAIN trace : trace[k].slice = Sub(trace[k].layer)
    /\ subCalls = [k \in DOMAIN trace |-> trace[k].layer]
    /\ \A s \in Slices :
          /\ handed[s] \subseteq {s}
          /\ cache[s] # <<>> => handed[s] = {s}

C3_Witness ==
    /\ pc = "idle"
    /\ Len(trace) > 1
    /\ \A k \in DOMAIN trace : cache[trace[k].slice] # <<>>

\* C4: within a pass the executed layers have strictly ascending indices, the
\* first is given the embedded input and every other one the output of the
\* layer executed before it, and the decoder returns the last output.
C4_AscendingOrderAndThreading ==
    /\ \A k \in DOMAIN trace :
          IF k = 1 THEN trace[k].in = embedded
          ELSE /\ trace[k - 1].layer < trace[k].layer
               /\ trace[k].in = trace[k - 1].out
    /\ pc = "decoder" => hiddenState = LastOut
    /\ (pc = "idle" /\ decoded # Nil) => decoded = LastOut

C4_Witness ==
    /\ pc = "idle"
    /\ Len(trace) > 1
    /\ trace[2].in # embedded
    /\ decoded = trace[Len(trace)].out
    /\ decoded # trace[1].out

\* C5: a cache slice only grows by appending, and the slice of a
\* self-attention layer holds exactly the positions passed through that
\* layer: after N single-token passes (fed = calls = N) its length is N.
C5_CacheAppendOnly ==
    [][\A s \in Slices :
          /\ IsPrefix(cache[s], cache'[s])
          /\ (s < Len(Layers') /\ Layers'[s + 1] = "self") => Len(cache'[s]) = fed'[s]]_vars

C5_Witness ==
    /\ pc = "idle"
    /\ \E s \in Slices :
          /\ s < Len(Layers) /\ Layers[s + 1] = "self"
          /\ calls[s] > 2
          /\ fed[s] = calls[s]
          /\ Len(cache[s]) = calls[s]

\* C6: a model exists only for a valid geometry (hiddenSize divisible by
\* numHeads, numHeads divisible by numKVHeads).
C6_ConstructionRejectsInvalidGeometry ==
    Built => ValidGeometry(opts)

\* C7: the layer list has block_count entries, entry idx being a
\* cross-attention layer exactly when idx is in the configured index list;
\* configured indices from block_count on create nothing.
C7_LayerListFollowsIndexSet ==
    Built =>
        /\ Len(Layers) = config.block_count
        /\ \A idx \in 0..(config.block_count - 1) :
              Layers[idx + 1] =
                  IF \E k \in DOMAIN config.cross_attention_layers :
                         config.cross_attention_layers[k] = idx
                  THEN "cross" ELSE "self"

C7_Witness ==
    /\ Built
    /\ Layers = <<"self", "cross">>
    /\ \E k \in DOMAIN config.cross_attention_layers :
          config.cross_attention_layers[k] >= config.block_count

\* C8: a cross-attention layer never puts into its slice, projects the
\* cross-modal tensor anew on each of its calls, and returns what it would
\* return without position ids, mask and cross-attention mask.
C8_CrossAttentionUncached ==
    Built =>
        /\ \A s \in Slices :
              (s < Len(Layers) /\ Layers[s + 1] = "cross") =>
                  /\ cache[s] = <<>>
                  /\ kvProj[s] = calls[s]
        /\ \A k \in DOMAIN trace :
              trace[k].kind = "cross" =>
                  /\ Len(trace[k].content) = trace[k].prior
                  /\ trace[k].out =
                        LayerForward("cross", trace[k].in, Nil, Nil, crossAttentionStates,
                                     Nil, cache[trace[k].slice], opts, gates).t

C8_Witness ==
    /\ pc = "idle"
    /\ mask # Nil /\ crossAttentionMask # Nil
    /\ \E k \in DOMAIN trace :
          /\ trace[k].kind = "cross"
          /\ calls[trace[k].layer] > 1
          /\ kvProj[trace[k].layer] = calls[trace[k].layer]
          /\ trace[k].out # trace[k].in

\* C9: with tanh(gate) = 0 for both gates, an executed cross-attention layer
\* returns its input.
C9_ZeroGatesGiveIdentity ==
    (Built /\ Tanh(gates.AttentionGate).val = 0 /\ Tanh(gates.MLPGate).val = 0) =>
        \A k \in DOMAIN trace :
            trace[k].kind = "cross" => trace[k].out = trace[k].in

C9_Witness ==
    /\ Built /\ Tanh(gates.AttentionGate).val = 0 /\ Tanh(gates.MLPGate).val = 0
    /\ \E k \in DOMAIN trace :
          /\ trace[k].kind = "cross"
          /\ trace[k].attn.ok /\ trace[k].attn.val # 0
          /\ trace[k].in.val # 0

\* C10: with a valid geometry the self-attention unit's output has the shape
\* of the hidden state it was given, hiddenSize x sequence length, whatever
\* the number of positions its slice already held.
C10_SelfAttentionKeepsShape ==
    (Built /\ ValidGeometry(opts)) =>
        \A k \in DOMAIN trace :
            trace[k].kind = "self" =>
                /\ trace[k].attn.ok
                /\ trace[k].attn.shape = trace[k].in.shape
                /\ trace[k].attn.shape = <<opts.hiddenSize, Dim(embedded, 1), 1, 1>>
                /\ Dim(embedded, 1) > 0

C10_Witness ==
    /\ Built /\ ValidGeometry(opts)
    /\ opts.numKVHeads < opts.numHeads
    /\ \E k \in DOMAIN trace :
          /\ trace[k].kind = "self"
          /\ trace[k].prior > 0
          /\ Dim(trace[k].in, 1) > 1
          /\ trace[k].attn.ok

\* C12: for a built model the dispatcher's reading of an index (membership in
\* opts.crossAttentionLayers) agrees with the type of the layer constructed
\* there, so over all passes no cross-attention layer is called with a nil
\* cross-modal state, no pass aborts on one, and no self-attention layer the
\* loop has passed was skipped.
C12_DispatchAgreesWithLayerTypes ==
    Built =>
        /\ \A idx \in 0..(Len(Layers) - 1) :
              (Layers[idx + 1] = "cross") <=> IsCrossIndex(idx)
        /\ \A k \in DOMAIN trace :
              trace[k].kind = "cross" => crossAttentionStates # Nil
        /\ pc # "panic"
        /\ \A idx \in 0..(Len(Layers) - 1) :
              (Layers[idx + 1] = "self" /\ idx < i) => idx \in Executed
        /\ \A s \in Slices :
              (s < Len(Layers) /\ Layers[s + 1] = "self" /\ pc = "idle") =>
                  Len(cache[s]) = position

C12_Witness ==
    /\ pc = "idle" /\ decoded # Nil
    /\ crossAttentionStates = Nil
    /\ \E a, b \in 0..(Len(Layers) - 1) :
          /\ Layers[a + 1] = "self" /\ a \in Executed
          /\ Layers[b + 1] = "cross" /\ b \notin Executed
          /\ calls[b] > 0

====
